---- MODULE Spec2Model ----
(***************************************************************************)
(* Model of the qvh-printing report run: reporting/main.py drives          *)
(* reporting/pbi.py (token, chunked concurrent page exports) and           *)
(* reporting/ppt.py (merge of the exported single-page decks).             *)
(*                                                                         *)
(* Strings that the program compares or sorts (file names) are sequences   *)
(* of code points, so that str(), zfill(), endswith(), replace() and the   *)
(* ordering used by sorted() are computed as Python computes them.         *)
(***************************************************************************)
EXTENDS Integers, Sequences, FiniteSets, TLC

(***************************************************************************)
(* Bounds of the model.                                                    *)
(***************************************************************************)
\* longest page list the configuration query returns
MaxPages == 3
\* most slides of a presentation file found in a directory to merge
MaxSlides == 2

(***************************************************************************)
(* Input domains.                                                          *)
(***************************************************************************)
\* pageOrder values of the configuration rows (rowid as pageOrder)
PageOrders == {11, 100}
\* --chunk_size is parsed with type=int: zero and negative values are accepted
ChunkSizes == {-1, 0, 1, 2, 3}
\* pageOrder of the page file an already existing run directory may hold
StaleOrders == {11}

(***************************************************************************)
(* Python string and list primitives.                                      *)
(***************************************************************************)
Min(a, b) == IF a <= b THEN a ELSE b

\* str(n) for n >= 0: the decimal digits, as code points
RECURSIVE Digits(_)
Digits(n) ==
    IF n < 10 THEN <<48 + n>> ELSE Append(Digits(n \div 10), 48 + (n % 10))

\* str(n) for an int
Str(n) == IF n < 0 THEN <<45>> \o Digits(0 - n) ELSE Digits(n)

\* a run of k "0" characters
RECURSIVE Zeros(_)
Zeros(k) == IF k <= 0 THEN <<>> ELSE <<48>> \o Zeros(k - 1)

\* s.zfill(width): pad on the left with "0", after a leading sign
zfill(s, width) ==
    IF Len(s) >= width THEN s
    ELSE IF Len(s) > 0 /\ Head(s) \in {43, 45}
         THEN <<Head(s)>> \o Zeros(width - Len(s)) \o Tail(s)
         ELSE Zeros(width - Len(s)) \o s

\* ".pptx" and ".ppt"
DotPptx == <<46, 112, 112, 116, 120>>
DotPpt == <<46, 112, 112, 116>>

\* s.endswith(suffix)
endswith(s, suffix) ==
    /\ Len(s) >= Len(suffix)
    /\ SubSeq(s, Len(s) - Len(suffix) + 1, Len(s)) = suffix

\* a < b for Python strings: code point order, a proper prefix first
RECURSIVE StrLess(_, _)
StrLess(a, b) ==
    IF b = <<>> THEN FALSE
    ELSE IF a = <<>> THEN TRUE
    ELSE IF Head(a) # Head(b) THEN Head(a) < Head(b)
    ELSE StrLess(Tail(a), Tail(b))

\* insertion of x into the ascending list s, after its equals (stable)
RECURSIVE Insert(_, _)
Insert(x, s) ==
    IF s = <<>> THEN <<x>>
    ELSE IF StrLess(x, Head(s)) THEN <<x>> \o s
    ELSE <<Head(s)>> \o Insert(x, Tail(s))

RECURSIVE SortFrom(_, _)
SortFrom(s, acc) ==
    IF s = <<>> THEN acc ELSE SortFrom(Tail(s), Insert(Head(s), acc))

\* s.replace(old, new): every occurrence of old, left to right
RECURSIVE replace(_, _, _)
replace(s, old, new) ==
    IF Len(s) < Len(old) THEN s
    ELSE IF SubSeq(s, 1, Len(old)) = old
    THEN new \o replace(SubSeq(s, Len(old) + 1, Len(s)), old, new)
    ELSE <<Head(s)>> \o replace(Tail(s), old, new)

\* sorted(names)
sorted(s) == SortFrom(s, <<>>)

\* the orders in which os.listdir can return the entries of a directory
Listings(names) ==
    {s \in [1..Cardinality(names) -> names] :
        \A a, b \in DOMAIN s : a # b => s[a] # s[b]}

(***************************************************************************)
(* Optional[str] values and the measureId format.                          *)
(***************************************************************************)
\* an Optional[str] is None or a string
None == [isNone |-> TRUE, str |-> <<>>]
Some(s) == [isNone |-> FALSE, str |-> s]

\* `if value:` for an Optional[str]: neither None nor the empty string
Truthy(value) == ~value.isNone /\ value.str # <<>>

\* \d, for the ASCII strings the model draws
IsDigit(c) == c \in 48..57

\* re.match(r"^BR\d{3}$", s): "B", "R" and three digits from the start of s;
\* $ matches at the end of s and also just before a newline that ends s
MatchesFormat(s) ==
    /\ Len(s) \in {5, 6}
    /\ s[1] = 66
    /\ s[2] = 82
    /\ \A k \in 3..5 : IsDigit(s[k])
    /\ Len(s) = 6 => s[6] = 10

\* validate_measure returns the value (TRUE) or raises ValueError (FALSE)
validate_measure(value) == Truthy(value) => MatchesFormat(value.str)

\* "BR007", "BR008" and "BR07"
BR007 == <<66, 82, 48, 48, 55>>
BR008 == <<66, 82, 48, 48, 56>>
BR07 == <<66, 82, 48, 55>>

(***************************************************************************)
(* File names and file contents.                                           *)
(***************************************************************************)
\* f"Page {str(page.pageOrder).zfill(2)}.pptx", the entry inside the run directory
PageFileName(pageOrder) ==
    <<80, 97, 103, 101, 32>> \o zfill(Str(pageOrder), 2) \o DotPptx

\* f"{measure}_report.pptx" for the measure "all"
ReportName == <<97, 108, 108, 95, 114, 101, 112, 111, 114, 116>> \o DotPptx

\* A file is [kind, slides]: a readable deck with its slides, or bytes that are
\* no presentation.  A slide is [src, n, shapes]: slide n of the deck rendered
\* for the page at position src (src = 0: a deck this run did not write), with
\* the types of its shapes from back to front.
\* a file that open(..., "wb") has just created or truncated: no bytes
EmptyFile == [kind |-> "empty", slides |-> <<>>]

\* the single-page deck the vendor renders for the page at position t
ExportedDeck(t) ==
    [kind |-> "deck",
     slides |-> <<[src |-> t, n |-> 1, shapes |-> <<"picture", "textbox">>]>>]

\* a page file left in the directory by something else than this run
StaleDeck ==
    [kind |-> "deck",
     slides |-> <<[src |-> 0, n |-> 1, shapes |-> <<"picture", "textbox">>]>>]

\* bytes of one writer followed by the tail of a longer earlier write
CorruptFile == [kind |-> "corrupt", slides |-> <<>>]

\* what is found at a path where no file exists
AbsentFile == [kind |-> "absent", slides |-> <<>>]

\* a directory that was never created
NoDir == [exists |-> FALSE, files |-> <<>>]

\* the file at a path of a directory
FileAt(d, name) == IF name \in DOMAIN d.files THEN d.files[name] ELSE AbsentFile

\* the directory after a file was created or overwritten at a path
WithFile(d, name, file) ==
    [d EXCEPT !.files = (name :> file) @@ d.files]

VARIABLES
    pc,             \* position of the run in main.py
    token,          \* the access token main.py holds
    rows,           \* result of the configuration query
    chunk_size,     \* --chunk_size
    report_config,  \* validated page list
    step,           \* chunk_size after min(report_len, chunk_size)
    i,              \* loop index of get_all_pages
    tasks,          \* one export task per position of report_config
    dir,            \* the run directory: [exists, files]
    launched,       \* the chunks launched so far, each a list of positions
    output,         \* presentation files saved in the working directory
    sent,           \* attachments handed to send_email
    failure         \* the step whose exception ended the run

vars == <<pc, token, rows, chunk_size, report_config, step, i, tasks, dir,
          launched, output, sent, failure>>

Positions == 1..MaxPages

\* resourceLocation of the export job for the page at position t: every job
\* has its own
ResultLocation(t) == t
NoLocation == 0

\* the variable token before and after get_access_token returned
NoToken == "none"
AccessToken == "access_token"

\* no request body
NoRequest == [format |-> "none"]

\* an export task that has not been created
\* st: position of the task in get_report_page;
\* request: the body of its export request;
\* last, loc: status and resourceLocation of the last status response;
\* file_url: the variable of that name (NoLocation: not assigned);
\* err: the exception that ended the task;
\* before: the file at the task's path when the call started;
\* wrote: the files the call has written
NoTask == [st |-> "none", request |-> NoRequest, last |-> "none", loc |-> NoLocation,
           file_url |-> NoLocation, err |-> "none", before |-> AbsentFile,
           wrote |-> 0]

InFlight == {"submit", "poll", "download", "read"}
Finished == {"done", "failed", "cancelled"}

\* a row of the configuration query; displayName is carried but never read
Row(pageName, pageOrder, measureId, comparativeMeasureId) ==
    [pageName |-> pageName, pageOrder |-> pageOrder, measureId |-> measureId,
     comparativeMeasureId |-> comparativeMeasureId]

\* the rows a configuration query can return: a page without a measure, a
\* page with a measure and a comparative measure, and a page whose measureId
\* has a digit too few
Pages ==
    {Row("ReportSectionA", 11, None, None),
     Row("ReportSectionB", 100, Some(BR007), Some(BR008)),
     Row("ReportSectionC", 11, Some(BR07), None)}
RowLists == UNION {[1..n -> Pages] : n \in 0..MaxPages}

\* main.py is modelled from its call of get_access_token on, in the order of
\* its statements; the names it reads without binding them (measure, emails)
\* are taken as given on the command line, as its usage text says.

\* the run directory before the run: absent, or left behind under the same id
InitialDirs ==
    {NoDir} \cup
    {[exists |-> TRUE, files |-> (PageFileName(o) :> StaleDeck)] : o \in StaleOrders}

Init ==
    /\ pc = "token"
    /\ token = NoToken
    /\ rows \in RowLists
    /\ chunk_size \in ChunkSizes
    /\ report_config = <<>>
    /\ step = 0
    /\ i = 0
    /\ tasks = [t \in Positions |-> NoTask]
    /\ dir \in InitialDirs
    /\ launched = <<>>
    /\ output = <<>>
    /\ sent = <<>>
    /\ failure = "none"

\* an exception reaches the top of main.py: the process ends with it
Raise(what) ==
    /\ pc' = "raised"
    /\ failure' = what

(***************************************************************************)
(* main.py, up to the export.                                              *)
(***************************************************************************)
\* get_access_token: the token request is sent; its response holds the token,
\* or raise_for_status raises
GetAccessToken ==
    /\ pc = "token"
    /\ \/ pc' = "config" /\ token' = AccessToken /\ UNCHANGED failure
       \/ Raise("token") /\ UNCHANGED token
    /\ UNCHANGED <<rows, chunk_size, report_config, step, i, tasks, dir,
                   launched, output, sent>>

\* load_report_config: get_page_config raises on an empty result,
\* validate_config builds one ReportPageConfig per row
LoadReportConfig ==
    /\ pc = "config"
    /\ IF rows = <<>>
       THEN \* Specified page does not exist
            Raise("config") /\ UNCHANGED report_config
       ELSE IF \E k \in DOMAIN rows : ~validate_measure(rows[k].measureId)
       THEN \* the ValidationError of the first row that fails
            Raise("config") /\ UNCHANGED report_config
       ELSE /\ report_config' = rows
            /\ pc' = "mkdir"
            /\ UNCHANGED failure
    /\ UNCHANGED <<token, rows, chunk_size, step, i, tasks, dir, launched, output, sent>>

\* make_dir(run_id): creates the directory unless it exists
MakeDir ==
    /\ pc = "mkdir"
    /\ dir' = IF dir.exists THEN dir ELSE [dir EXCEPT !.exists = TRUE]
    /\ pc' = "export"
    /\ UNCHANGED <<token, rows, chunk_size, report_config, step, i, tasks, launched,
                   output, sent, failure>>

(***************************************************************************)
(* get_all_pages: the chunk loop.                                         *)
(***************************************************************************)
\* a chunk size that is the larger of the two
EffectiveChunkSize_max(report_len, size) ==
    IF report_len >= size THEN report_len ELSE size

\* chunk_size = min(report_len, chunk_size)
EffectiveChunkSize(report_len, size) == Min(report_len, size)

\* a slice that is one page too long
ChunkAt_overlap(at, size, report_len) ==
    [k \in 1..(Min(at + size + 1, report_len) - at) |-> at + k]

\* the positions of report_config[at : at + size], in list order
ChunkAt(at, size, report_len) ==
    [k \in 1..(Min(at + size, report_len) - at) |-> at + k]

\* the positions of a chunk, as a set
Members(chunk) == {chunk[k] : k \in DOMAIN chunk}

\* the chunk whose gather the loop is waiting on
Current == Members(ChunkAt(i, step, Len(report_config)))

\* ppt_file_name of the task for the page at position t
PathOf(t) == PageFileName(report_config[t].pageOrder)

\* "scd_Measure/Measure_ID in ('" and "')"
FilterPrefix ==
    <<115, 99, 100, 95, 77, 101, 97, 115, 117, 114, 101, 47, 77, 101, 97, 115,
      117, 114, 101, 95, 73, 68, 32, 105, 110, 32, 40, 39>>
FilterSuffix == <<39, 41>>

\* " and scd_Measure/Comparative_Measure_ID in ('"
ComparativePrefix ==
    <<32, 97, 110, 100, 32, 115, 99, 100, 95, 77, 101, 97, 115, 117, 114, 101,
      47, 67, 111, 109, 112, 97, 114, 97, 116, 105, 118, 101, 95, 77, 101, 97,
      115, 117, 114, 101, 95, 73, 68, 32, 105, 110, 32, 40, 39>>

\* f"scd_Measure/Measure_ID in ('{page_config.measureId}')"
FilterString(measureId) == FilterPrefix \o measureId \o FilterSuffix

\* a request whose filter also names the comparative measure
ExportRequest_comparative(page_config) ==
    IF Truthy(page_config.measureId)
    THEN [format |-> "PPTX",
          pages |-> <<page_config.pageName>>,
          reportLevelFilters |->
              <<IF Truthy(page_config.comparativeMeasureId)
                THEN FilterString(page_config.measureId.str)
                       \o ComparativePrefix
                       \o page_config.comparativeMeasureId.str \o FilterSuffix
                ELSE FilterString(page_config.measureId.str)>>]
    ELSE [format |-> "PPTX", pages |-> <<page_config.pageName>>]

\* data of get_report_page: the page, and the report level filter when
\* page_config.measureId is neither None nor empty; both branches on
\* comparativeMeasureId build the same filter string
ExportRequest(page_config) ==
    IF Truthy(page_config.measureId)
    THEN [format |-> "PPTX",
          pages |-> <<page_config.pageName>>,
          reportLevelFilters |->
              <<IF Truthy(page_config.comparativeMeasureId)
                THEN FilterString(page_config.measureId.str)
                ELSE FilterString(page_config.measureId.str)>>]
    ELSE [format |-> "PPTX", pages |-> <<page_config.pageName>>]

\* asyncio.create_task for every page of the chunk.  The tasks first run when
\* the loop awaits gather, each up to its first await, before any response is
\* handled: every task of the chunk has sent its export request
CreateTasks(ts, chunk) ==
    [t \in Positions |->
        IF t \in Members(chunk)
        THEN [ts[t] EXCEPT !.st = "submit",
                           !.request = ExportRequest(report_config[t]),
                           !.before = FileAt(dir, PathOf(t))]
        ELSE ts[t]]

\* a wait that ends with the first task that returns
GatherDone_firstCompleted(ts, chunk) == \E t \in chunk : ts[t].st = "done"

\* a wait that collects exceptions as results
GatherDone_returnExceptions(ts, chunk) ==
    \A t \in chunk : ts[t].st \in {"done", "failed"}

\* await asyncio.gather(*tasks) returns: every task of the chunk returned
GatherDone(ts, chunk) == \A t \in chunk : ts[t].st = "done"

\* await asyncio.gather(*tasks) raises: a task of the chunk raised
GatherFailed(ts, chunk) == \E t \in chunk : ts[t].st = "failed"

\* asyncio.run cancels every task that is still pending when its main
\* coroutine has ended
CancelPending(ts) ==
    [t \in Positions |->
        IF ts[t].st \in InFlight
        THEN [ts[t] EXCEPT !.st = "cancelled", !.err = "CancelledError"]
        ELSE ts[t]]

\* asyncio.run(get_all_pages(...)) up to the first await: the chunk size, the
\* range of the loop and the tasks of the first chunk
StartExport ==
    /\ pc = "export"
    /\ LET report_len == Len(report_config)
           size == EffectiveChunkSize(report_len, chunk_size)
           chunk == ChunkAt(0, size, report_len)
       IN  /\ step' = size
           /\ i' = 0
           /\ IF size = 0
              THEN \* range() arg 3 must not be zero
                   Raise("range") /\ UNCHANGED <<tasks, launched>>
              ELSE IF size < 0 \/ report_len = 0
              THEN \* the range is empty: the loop body never runs
                   /\ pc' = "merge"
                   /\ UNCHANGED <<tasks, launched, failure>>
              ELSE /\ tasks' = CreateTasks(tasks, chunk)
                   /\ launched' = Append(launched, chunk)
                   /\ pc' = "gather"
                   /\ UNCHANGED failure
    /\ UNCHANGED <<token, rows, chunk_size, report_config, dir, output, sent>>

\* gather returns and the loop goes on: the next chunk's tasks, or the end
\* of get_all_pages
GatherReturn ==
    /\ pc = "gather"
    /\ GatherDone(tasks, Current)
    /\ LET report_len == Len(report_config)
           next == i + step
           chunk == ChunkAt(next, step, report_len)
       IN  /\ i' = next
           /\ IF next < report_len
              THEN /\ tasks' = CreateTasks(tasks, chunk)
                   /\ launched' = Append(launched, chunk)
                   /\ UNCHANGED pc
              ELSE /\ pc' = "merge"
                   /\ UNCHANGED <<tasks, launched>>
    /\ UNCHANGED <<token, rows, chunk_size, report_config, step, dir, output, sent,
                   failure>>

\* gather raises the first exception of the chunk without waiting for the other
\* tasks; it leaves get_all_pages and asyncio.run, which cancels what is pending
GatherRaise ==
    /\ pc = "gather"
    /\ GatherFailed(tasks, Current)
    /\ tasks' = CancelPending(tasks)
    /\ Raise("export")
    /\ UNCHANGED <<token, rows, chunk_size, report_config, step, i, dir, launched,
                   output, sent>>

(***************************************************************************)
(* get_report_page: one export task.  A task moves at its awaits: the      *)
(* submit response, each status response, the download response and the    *)
(* body of the download.                                                   *)
(***************************************************************************)
\* HTTP statuses of the vendor's responses: a success that is not 202, the
\* asynchronous 202, and an error
HttpStatuses == {200, 202, 500}

\* the status field of a status response
ExportStatuses == {"Running", "Succeeded", "Failed"}

\* response.raise_for_status() raises
IsHttpError(http) == http >= 400

\* the task ends with an exception
Failed(task, exception) == [task EXCEPT !.st = "failed", !.err = exception]

\* after the response to session.post(url, json=data): raise_for_status, then
\* the status request when the status is 202, and nothing otherwise
AfterSubmit(task, http) ==
    IF IsHttpError(http) THEN Failed(task, "HTTPError")
    ELSE IF http = 202 THEN [task EXCEPT !.st = "poll"]
    ELSE [task EXCEPT !.st = "done"]

\* a status loop that asks again after the vendor reported the job as failed
AfterPoll_retryFailed(task, http, status, location) ==
    IF IsHttpError(http) THEN Failed(task, "HTTPError")
    ELSE IF status = "Succeeded"
    THEN [task EXCEPT !.st = "download", !.last = status, !.loc = location,
                      !.file_url = location]
    ELSE [task EXCEPT !.st = "poll", !.last = status]

\* a status loop that gives up when the job is reported as running twice
AfterPoll_timeout(task, http, status, location) ==
    IF IsHttpError(http) THEN Failed(task, "HTTPError")
    ELSE IF status = "Succeeded"
    THEN [task EXCEPT !.st = "download", !.last = status, !.loc = location,
                      !.file_url = location]
    ELSE IF status = "Failed"
    THEN [Failed(task, "PBIExportError") EXCEPT !.last = status]
    ELSE IF task.last = status
    THEN Failed(task, "TimeoutError")
    ELSE [task EXCEPT !.st = "poll", !.last = status]

\* after a response to session.get(status_url): raise_for_status, then the
\* branch on status_data["status"]; any status but Succeeded and Failed sleeps
\* and asks again
AfterPoll(task, http, status, location) ==
    IF IsHttpError(http) THEN Failed(task, "HTTPError")
    ELSE IF status = "Succeeded"
    THEN [task EXCEPT !.st = "download", !.last = status, !.loc = location,
                      !.file_url = location]
    ELSE IF status = "Failed"
    THEN [Failed(task, "PBIExportError") EXCEPT !.last = status]
    ELSE [task EXCEPT !.st = "poll", !.last = status]

\* after the response to session.get(file_url): raise_for_status, then
\* open(ppt_file_name, "wb"), which creates or truncates the file before the
\* body is awaited
AfterDownload(task, http) ==
    IF IsHttpError(http) THEN Failed(task, "HTTPError")
    ELSE [task EXCEPT !.st = "read"]

\* the file after file.write(body) by the task at position t: the deck, or,
\* when another writer's bytes are in the file already, the deck or a mix
Written(t, file) ==
    IF file.kind = "empty" THEN {ExportedDeck(t)}
    ELSE {ExportedDeck(t), CorruptFile}

SubmitResponse(t) ==
    /\ pc = "gather"
    /\ tasks[t].st = "submit"
    /\ \E http \in HttpStatuses :
          tasks' = [tasks EXCEPT ![t] = AfterSubmit(@, http)]
    /\ UNCHANGED <<pc, token, rows, chunk_size, report_config, step, i, dir, launched,
                   output, sent, failure>>

PollResponse(t) ==
    /\ pc = "gather"
    /\ tasks[t].st = "poll"
    /\ \E http \in {200, 500}, status \in ExportStatuses :
          tasks' = [tasks EXCEPT ![t] = AfterPoll(@, http, status, ResultLocation(t))]
    /\ UNCHANGED <<pc, token, rows, chunk_size, report_config, step, i, dir, launched,
                   output, sent, failure>>

DownloadResponse(t) ==
    /\ pc = "gather"
    /\ tasks[t].st = "download"
    /\ \E http \in {200, 500} :
          /\ tasks' = [tasks EXCEPT ![t] = AfterDownload(@, http)]
          /\ dir' = IF tasks'[t].st = "read"
                    THEN WithFile(dir, PathOf(t), EmptyFile)
                    ELSE dir
    /\ UNCHANGED <<pc, token, rows, chunk_size, report_config, step, i, launched,
                   output, sent, failure>>

\* await file_response.read() inside the with block: the bytes are written and
\* the file closed, or the read raises and the file is closed as it is
ReadBody(t) ==
    /\ pc = "gather"
    /\ tasks[t].st = "read"
    /\ \/ \E file \in Written(t, FileAt(dir, PathOf(t))) :
            /\ dir' = WithFile(dir, PathOf(t), file)
            /\ tasks' = [tasks EXCEPT ![t] = [@ EXCEPT !.st = "done", !.wrote = 1]]
       \/ /\ tasks' = [tasks EXCEPT ![t] = Failed(@, "ClientPayloadError")]
          /\ UNCHANGED dir
    /\ UNCHANGED <<pc, token, rows, chunk_size, report_config, step, i, launched,
                   output, sent, failure>>

(***************************************************************************)
(* ppt.py: merge_presentations and copy_slide.                             *)
(***************************************************************************)
IsPicture(shape) == shape = "picture"
IsOther(shape) == shape # "picture"

\* copy_slide: a new slide that holds the clones of the shapes that are no
\* pictures, then the pictures added again from their image bytes
copy_slide(slide) ==
    [slide EXCEPT !.shapes = SelectSeq(@, IsOther) \o SelectSeq(@, IsPicture)]

\* Presentation(filepath) raises unless the file is a presentation
Unreadable(file) == file.kind # "deck"

\* for slide in source_presentation.slides: copy_slide(slide, merged_presentation)
RECURSIVE CopySlides(_, _)
CopySlides(slides, merged) ==
    IF slides = <<>> THEN merged
    ELSE CopySlides(Tail(slides), Append(merged, copy_slide(Head(slides))))

\* the files of the directory that the loop opens
Selected(filename) == endswith(filename, DotPptx)

\* a loop that passes over a presentation it cannot read
RECURSIVE MergeLoop_skip(_, _, _)
MergeLoop_skip(files, d, merged) ==
    IF files = <<>> THEN [raised |-> FALSE, slides |-> merged]
    ELSE IF ~Selected(Head(files)) \/ Unreadable(d.files[Head(files)])
    THEN MergeLoop_skip(Tail(files), d, merged)
    ELSE MergeLoop_skip(Tail(files), d,
                        CopySlides(d.files[Head(files)].slides, merged))

\* the loop over the sorted entries: [raised, slides] of merged_presentation
RECURSIVE MergeLoop(_, _, _)
MergeLoop(files, d, merged) ==
    IF files = <<>> THEN [raised |-> FALSE, slides |-> merged]
    ELSE IF ~Selected(Head(files)) THEN MergeLoop(Tail(files), d, merged)
    ELSE IF Unreadable(d.files[Head(files)])
    THEN [raised |-> TRUE, slides |-> merged]
    ELSE MergeLoop(Tail(files), d,
                   CopySlides(d.files[Head(files)].slides, merged))

\* the entries as os.listdir returned them
SortedEntries_unsorted(listing) == listing

\* files = sorted(os.listdir(directory_path))
SortedEntries(listing) == sorted(listing)

\* output_ppt_path = output_filename.replace('.pptx', '.ppt')
OutputPath(output_filename) == replace(output_filename, DotPptx, DotPpt)

\* merge_presentations(directory_path=run_id, output_filename=...): the merged
\* presentation is saved after the last file, or the first unreadable
\* presentation ends the run before anything is saved
MergePresentations ==
    /\ pc = "merge"
    /\ \E listing \in Listings(DOMAIN dir.files) :
          LET merged == MergeLoop(SortedEntries(listing), dir, <<>>)
          IN  IF merged.raised
              THEN Raise("merge") /\ UNCHANGED output
              ELSE /\ output' = (OutputPath(ReportName) :>
                                    [kind |-> "deck", slides |-> merged.slides])
                                 @@ output
                   /\ pc' = "email"
                   /\ UNCHANGED failure
    /\ UNCHANGED <<token, rows, chunk_size, report_config, step, i, tasks, dir,
                   launched, sent>>

\* send_email(..., attachment=f"{measure}_report.pptx"): the attachment is
\* opened for reading and sent
SendEmail ==
    /\ pc = "email"
    /\ IF ReportName \in DOMAIN output
       THEN /\ sent' = Append(sent, ReportName)
            /\ pc' = "done"
            /\ UNCHANGED failure
       ELSE Raise("email") /\ UNCHANGED sent
    /\ UNCHANGED <<token, rows, chunk_size, report_config, step, i, tasks, dir,
                   launched, output>>

Next ==
    \/ GetAccessToken
    \/ LoadReportConfig
    \/ MakeDir
    \/ StartExport
    \/ GatherReturn
    \/ GatherRaise
    \/ \E t \in Positions : SubmitResponse(t)
    \/ \E t \in Positions : PollResponse(t)
    \/ \E t \in Positions : DownloadResponse(t)
    \/ \E t \in Positions : ReadBody(t)
    \/ MergePresentations
    \/ SendEmail

Spec == Init /\ [][Next]_vars

(***************************************************************************)
(* Properties of the chunk loop.                                           *)
(***************************************************************************)
\* get_all_pages has returned normally
ExportReturned ==
    \/ pc \in {"merge", "email", "done"}
    \/ pc = "raised" /\ failure \in {"merge", "email"}

\* get_all_pages has been entered
ExportEntered == pc \notin {"token", "config", "mkdir", "export"}

CeilDiv(a, b) == (a + b - 1) \div b

RECURSIVE Flatten(_)
Flatten(ss) == IF ss = <<>> THEN <<>> ELSE Head(ss) \o Flatten(Tail(ss))

\* the size the k-th of the chunks of width c over a list of length len has
ExpectedSize(k, c, len) == IF k * c <= len THEN c ELSE len - (k - 1) * c

\* C1: for a page list of length L >= 1 and a chunk size C >= 1 the chunks
\* launched are, in sequence, the consecutive slices of width min(L, C) of the
\* list: the k-th chunk holds the positions after the first (k-1)*width, never
\* more than ceil(L/C) chunks are launched, and when get_all_pages returns
\* exactly ceil(L/C) were, which together are the list, each page once.
C1_Chunks ==
    (ExportEntered /\ chunk_size >= 1) =>
        LET len == Len(report_config)
            width == IF len <= chunk_size THEN len ELSE chunk_size
        IN  /\ Len(launched) <= CeilDiv(len, chunk_size)
            /\ \A k \in DOMAIN launched :
                  /\ Len(launched[k]) = ExpectedSize(k, width, len)
                  /\ \A j \in DOMAIN launched[k] :
                        launched[k][j] = (k - 1) * width + j
            /\ ExportReturned =>
                  /\ Len(launched) = CeilDiv(len, chunk_size)
                  /\ Flatten(launched) = [k \in 1..len |-> k]

\* three pages in chunks of two were exported as [1, 2] then [3]
C1_Witness ==
    /\ ExportReturned
    /\ chunk_size = 2
    /\ launched = <<(<<1, 2>>), (<<3>>)>>

\* the chunk a position belongs to, for chunks of the given width
ChunkIndex(t, width) == (t - 1) \div width

\* C2: no export task of a later chunk exists (is created, has sent a request)
\* while a task of an earlier chunk has not finished.
C2_ChunkOrder ==
    (ExportEntered /\ chunk_size >= 1) =>
        LET len == Len(report_config)
            width == IF len <= chunk_size THEN len ELSE chunk_size
        IN  \A t, u \in 1..len :
                (ChunkIndex(t, width) < ChunkIndex(u, width)
                 /\ tasks[u].st # "none") => tasks[t].st \in Finished

\* a task of the second chunk is waiting for its status response, and in the
\* first chunk both tasks returned
C2_Witness ==
    /\ chunk_size = 2
    /\ tasks[3].st = "poll"
    /\ tasks[1].st = "done" /\ tasks[2].st = "done"

\* C3: at most min(L, C) export tasks are started and not finished, for C >= 1,
\* whether or not exports have failed.
C3_Bounded ==
    chunk_size >= 1 =>
        LET len == Len(report_config)
            limit == IF len <= chunk_size THEN len ELSE chunk_size
        IN  Cardinality({t \in Positions : tasks[t].st \in InFlight}) <= limit

\* one export of a chunk of three has failed and the two others are in flight
C3_Witness ==
    /\ chunk_size = 3
    /\ \E t \in Positions : tasks[t].st = "failed"
    /\ Cardinality({t \in Positions : tasks[t].st \in InFlight}) = 2

(***************************************************************************)
(* Properties of a failing chunk.                                          *)
(***************************************************************************)
\* the tasks of the chunk in which the export failed
FailedChunk == Current

\* C4 as stated: siblings of a failed task are never cancelled and run to their
\* own completion, and the run is aborted only when every task of the chunk
\* has finished.
C4_Original ==
    /\ \A t \in Positions : tasks[t].st # "cancelled"
    /\ failure = "export" =>
          \A t \in FailedChunk : tasks[t].st \in {"done", "failed"}

\* C4, amended: while the chunk is waited on no task is cancelled; the wait
\* ends with the first failure: when the run is aborted a task of the chunk has
\* failed, no task is left running (the unfinished siblings were cancelled on
\* the way out) and, in every state, no task of a chunk after a failed task's
\* chunk has been created.
C4_Amended ==
    /\ pc = "gather" => \A t \in Positions : tasks[t].st # "cancelled"
    /\ failure = "export" =>
          /\ \E t \in FailedChunk : tasks[t].st = "failed"
          /\ \A t \in Positions : tasks[t].st \notin InFlight
          /\ \A t \in Positions :
                tasks[t].st = "cancelled" => t \in FailedChunk
    /\ \A t, u \in Positions :
          (tasks[t].st \in {"failed", "cancelled"} /\ step >= 1
           /\ ChunkIndex(t, step) < ChunkIndex(u, step))
          => tasks[u].st = "none"

\* the run was aborted by a failed export while a sibling that had sent its
\* request was unfinished, and pages of a later chunk were never started
C4_Witness ==
    /\ failure = "export"
    /\ Len(report_config) = 3 /\ chunk_size = 2
    /\ tasks[1].st = "failed"
    /\ tasks[2].st = "cancelled" /\ tasks[2].last = "Running"
    /\ tasks[3].st = "none"

(***************************************************************************)
(* Properties of one export task.                                          *)
(***************************************************************************)
\* the task at position t is the only one of the run with its output path
OwnsPath(t) ==
    \A u \in 1..Len(report_config) : u # t => PathOf(u) # PathOf(t)

\* C5 as stated: a call of get_report_page that returned normally has written
\* one file, which is at its ppt_file_name, whatever success status the submit
\* request returned.
C5_Claim ==
    \A t \in 1..Len(report_config) :
        tasks[t].st = "done" =>
            /\ tasks[t].wrote = 1
            /\ PathOf(t) \in DOMAIN dir.files

\* C6 as stated: a call of get_report_page that raised left the file at its
\* ppt_file_name as it was before the call (absent, or with its old bytes).
C6_Claim ==
    \A t \in 1..Len(report_config) :
        (tasks[t].st = "failed" /\ OwnsPath(t)) =>
            FileAt(dir, PathOf(t)) = tasks[t].before

\* C7, the states: a task that asked for the download, opened the file or wrote
\* it got Succeeded as its last status and asks at the location of that
\* response; after Failed the task has ended with PBIExportError; after any
\* other status it is asking for the status again, unless that next request
\* failed or the task was cancelled.
C7_States ==
    \A t \in Positions :
        /\ (tasks[t].st \in {"download", "read"} \/ tasks[t].wrote = 1) =>
              /\ tasks[t].last = "Succeeded"
              /\ tasks[t].file_url = tasks[t].loc
              /\ tasks[t].loc = ResultLocation(t)
        /\ tasks[t].last = "Failed" =>
              tasks[t].st = "failed" /\ tasks[t].err = "PBIExportError"
        /\ tasks[t].last = "Running" =>
              \/ tasks[t].st = "poll"
              \/ tasks[t].st = "failed" /\ tasks[t].err = "HTTPError"
              \/ tasks[t].st = "cancelled"
        /\ tasks[t].st = "poll" => tasks[t].last \in {"none", "Running"}

\* C7, the steps: a task goes submit -> poll* -> download -> read, it never
\* submits twice, and once it has ended it sends nothing more
C7_Steps ==
    \A t \in Positions :
        /\ tasks'[t].st = "submit" => tasks[t].st \in {"none", "submit"}
        /\ tasks'[t].st = "poll" => tasks[t].st \in {"submit", "poll"}
        /\ tasks'[t].st = "download" => tasks[t].st \in {"poll", "download"}
        /\ tasks'[t].st = "read" => tasks[t].st \in {"download", "read"}
        /\ tasks[t].st \in Finished => tasks'[t] = tasks[t]

\* C7: per export task the steps are ordered submit -> poll* -> download; the
\* download follows a Succeeded status and uses its result location; Failed
\* ends the task with PBIExportError and no further request; any other status
\* is followed by another status request.
C7_Order == []C7_States /\ [][C7_Steps]_vars

\* of three concurrent tasks one asks for its download after Succeeded, one
\* ended with PBIExportError after Failed, one polls again after Running
C7_Witness ==
    \E t, u, v \in Positions :
        /\ tasks[t].st = "download" /\ tasks[t].file_url = ResultLocation(t)
        /\ tasks[u].st = "failed" /\ tasks[u].err = "PBIExportError"
        /\ tasks[v].st = "poll" /\ tasks[v].last = "Running"

\* C8 as stated: no two export tasks of a run open the same path for writing.
C8_Claim ==
    \A t, u \in 1..Len(report_config) :
        (t # u /\ tasks[t].wrote = 1 /\ tasks[u].wrote = 1)
        => PathOf(t) # PathOf(u)

(***************************************************************************)
(* merge_presentations on an arbitrary directory.                          *)
(***************************************************************************)
\* the entries a directory to merge may hold: "Page 02.pptx", "Page 11.pptx",
\* "Page 100.pptx", "notes.txt", "Page 02.pptx.bak" and "apptx"
Pool ==
    <<PageFileName(2), PageFileName(11), PageFileName(100),
      <<110, 111, 116, 101, 115, 46, 116, 120, 116>>,
      PageFileName(2) \o <<46, 98, 97, 107>>,
      <<97, 112, 112, 116, 120>>>>

\* a presentation of the given number of slides, the file at entry j of Pool
Deck(j, count) ==
    [kind |-> "deck",
     slides |-> [n \in 1..count |->
                   [src |-> j, n |-> n,
                    shapes |-> IF n % 2 = 1 THEN <<"picture", "textbox">>
                               ELSE <<"textbox", "picture", "chart">>]]]

\* what entry j holds under choice c: a presentation of c slides, or for
\* c > MaxSlides bytes that are no presentation
Content(j, c) == IF c <= MaxSlides THEN Deck(j, c) ELSE EmptyFile

\* the choices for entry j: absent (0), and present with some content; an
\* entry without the suffix is no presentation
Choices(j) ==
    IF endswith(Pool[j], DotPptx) THEN 0..(MaxSlides + 1)
    ELSE {0, MaxSlides + 1}

MergeDirs ==
    {[exists |-> TRUE,
      files |-> [name \in {Pool[j] : j \in {k \in DOMAIN Pool : c[k] # 0}} |->
                   LET j == CHOOSE k \in DOMAIN Pool : Pool[k] = name
                   IN  Content(j, c[j])]] :
        c \in {d \in [DOMAIN Pool -> 0..(MaxSlides + 1)] :
                  \A j \in DOMAIN Pool : d[j] \in Choices(j)}}

\* the run is at the call of merge_presentations, on any such directory
InitMerge ==
    /\ pc = "merge"
    /\ token = AccessToken
    /\ rows = <<>>
    /\ chunk_size = 5
    /\ report_config = <<>>
    /\ step = 0
    /\ i = 0
    /\ tasks = [t \in Positions |-> NoTask]
    /\ dir \in MergeDirs
    /\ launched = <<>>
    /\ output = <<>>
    /\ sent = <<>>
    /\ failure = "none"

NextMerge == MergePresentations

SpecMerge == InitMerge /\ [][NextMerge]_vars

(***************************************************************************)
(* Properties of the file names and of the merge.                          *)
(***************************************************************************)
\* the slides of the presentation merge_presentations saved
MergedSlides == output[OutputPath(ReportName)].slides

\* the pages of the run have pairwise distinct pageOrder values
DistinctOrders ==
    \A t, u \in 1..Len(report_config) :
        t # u => report_config[t].pageOrder # report_config[u].pageOrder

\* C9 as stated: for pages with pairwise distinct pageOrder the file names
\* built by get_all_pages sort in ascending pageOrder: of two exported pages
\* that merge_presentations has processed, the one whose file name sorts first,
\* which is the one merged first, has the smaller pageOrder.
C9_Claim ==
    (pc = "email" /\ DistinctOrders) =>
        \A a, b \in DOMAIN MergedSlides :
            (a < b /\ MergedSlides[a].src >= 1 /\ MergedSlides[b].src >= 1)
            => /\ StrLess(PathOf(MergedSlides[a].src), PathOf(MergedSlides[b].src))
               /\ report_config[MergedSlides[a].src].pageOrder
                    < report_config[MergedSlides[b].src].pageOrder

\* the entries of the directory that are presentation files by their name
PptxEntries ==
    {j \in DOMAIN Pool : Pool[j] \in DOMAIN dir.files /\ endswith(Pool[j], DotPptx)}

\* C10: the merged presentation holds one slide for every slide of every
\* '.pptx' entry of the directory and no other slide, the files in the order
\* of their names and the slides of a file in their order; the merge fails
\* only when a '.pptx' entry is no readable presentation.
C10_Merge ==
    /\ failure = "merge" =>
          \E j \in PptxEntries : dir.files[Pool[j]].kind # "deck"
    /\ pc = "email" =>
          /\ \A a \in DOMAIN MergedSlides :
                /\ MergedSlides[a].src \in PptxEntries
                /\ MergedSlides[a].n \in
                      DOMAIN dir.files[Pool[MergedSlides[a].src]].slides
          /\ \A a, b \in DOMAIN MergedSlides :
                a < b =>
                  \/ StrLess(Pool[MergedSlides[a].src], Pool[MergedSlides[b].src])
                  \/ /\ MergedSlides[a].src = MergedSlides[b].src
                     /\ MergedSlides[a].n < MergedSlides[b].n
          /\ \A j \in PptxEntries :
                \A n \in DOMAIN dir.files[Pool[j]].slides :
                    \E a \in DOMAIN MergedSlides :
                        MergedSlides[a].src = j /\ MergedSlides[a].n = n

\* three presentations of two slides each and the three other entries were
\* merged into six slides
C10_Witness ==
    /\ pc = "email"
    /\ DOMAIN dir.files = {Pool[j] : j \in DOMAIN Pool}
    /\ Len(MergedSlides) = 6

(***************************************************************************)
(* The output file and the attachment.                                     *)
(***************************************************************************)
\* merge_presentations has returned to main.py
MergeReturned == pc \in {"email", "done"} \/ failure = "email"

\* C11 as stated: once merge_presentations(directory_path, output_filename)
\* has returned in a run that wrote a file for every page, the merged presentation is a file at the output_filename that
\* main.py passed, and every attachment handed to send_email is the path of
\* that existing file.
C11_Claim ==
    (MergeReturned /\ \A t \in DOMAIN report_config : tasks[t].wrote = 1) =>
        /\ ReportName \in DOMAIN output
        /\ \A k \in DOMAIN sent : sent[k] = ReportName

(***************************************************************************)
(* The configuration loader on its own: one row whose measureId is None or *)
(* any string over a small alphabet.                                       *)
(***************************************************************************)
\* longest measureId string
MaxIdLen == 6

\* "B", "R", "7", a newline and a space
IdAlphabet == {66, 82, 55, 10, 32}

IdStrings == UNION {[1..n -> IdAlphabet] : n \in 0..MaxIdLen}

\* the measureId values of a row
IdValues == {None} \cup {Some(s) : s \in IdStrings}

InitConfig ==
    /\ pc = "config"
    /\ token = AccessToken
    /\ rows \in {<<Row("ReportSectionA", 11, m, None)>> : m \in IdValues}
    /\ chunk_size = 5
    /\ report_config = <<>>
    /\ step = 0
    /\ i = 0
    /\ tasks = [t \in Positions |-> NoTask]
    /\ dir = NoDir
    /\ launched = <<>>
    /\ output = <<>>
    /\ sent = <<>>
    /\ failure = "none"

NextConfig == LoadReportConfig

SpecConfig == InitConfig /\ [][NextConfig]_vars

\* exactly "BR" followed by three digits
ExactFormat(s) ==
    /\ Len(s) = 5
    /\ s[1] = 66
    /\ s[2] = 82
    /\ \A k \in 3..5 : s[k] \in 48..57

\* C12 as stated: validation of a row succeeds for every measureId that is
\* exactly "BR" followed by three digits, fails for every other non-empty
\* measureId string (extra leading or trailing characters such as a trailing
\* newline included), and succeeds for an absent measureId.
C12_Claim ==
    (pc = "mkdir" \/ failure = "config") =>
        LET measureId == rows[1].measureId
            accepted == pc = "mkdir"
        IN  /\ measureId.isNone => accepted
            /\ Truthy(measureId) => (accepted <=> ExactFormat(measureId.str))

(***************************************************************************)
(* Configuration errors and the network.                                   *)
(***************************************************************************)
\* C13 as stated: in a run whose configuration is rejected (a row whose
\* measureId violates the format, or an empty result) no token request was
\* made and no export request was submitted.
C13_Claim ==
    failure = "config" =>
        /\ token = NoToken
        /\ \A t \in Positions : tasks[t].st = "none"

(***************************************************************************)
(* The export request on its own: get_all_pages is entered with one chunk  *)
(* of validated pages, over every combination of their fields.             *)
(***************************************************************************)
\* longest page list of the request specification
RequestPages == 2

PageNames == {"ReportSectionA", "ReportSectionB"}

\* measureId values that validate_measure accepts: None, "" and two measures
MeasureIds == {None, Some(<<>>), Some(BR007), Some(BR008)}

\* comparativeMeasureId is not validated
ComparativeIds == {None, Some(<<>>), Some(BR008)}

PageConfigs ==
    {Row(n, o, m, c) : n \in PageNames, o \in PageOrders, m \in MeasureIds,
                       c \in ComparativeIds}

InitRequest ==
    /\ pc = "export"
    /\ token = AccessToken
    /\ rows \in UNION {[1..n -> PageConfigs] : n \in 1..RequestPages}
    /\ chunk_size = 5
    /\ report_config = rows
    /\ step = 0
    /\ i = 0
    /\ tasks = [t \in Positions |-> NoTask]
    /\ dir = [exists |-> TRUE, files |-> <<>>]
    /\ launched = <<>>
    /\ output = <<>>
    /\ sent = <<>>
    /\ failure = "none"

NextRequest == StartExport

SpecRequest == InitRequest /\ [][NextRequest]_vars

\* the export request of the page at position t has been built and sent
Submitted(t) == tasks[t].st # "none"

HasFilter(request) == "reportLevelFilters" \in DOMAIN request

\* C14: the export request of a page names exactly that page's pageName; it
\* carries a report level filter if and only if measureId is present and not
\* empty, and then the one filter restricts Measure_ID to that measureId; two
\* pages that differ only in comparativeMeasureId (or pageOrder) send the same
\* request.
C14_Request ==
    \A t \in DOMAIN report_config :
        Submitted(t) =>
            LET page == report_config[t]
                request == tasks[t].request
            IN  /\ request.format = "PPTX"
                /\ request.pages = <<page.pageName>>
                /\ HasFilter(request) <=>
                       (~page.measureId.isNone /\ page.measureId.str # <<>>)
                /\ HasFilter(request) =>
                       request.reportLevelFilters =
                           <<FilterPrefix \o page.measureId.str \o FilterSuffix>>
                /\ \A u \in DOMAIN report_config :
                       ( /\ Submitted(u)
                         /\ report_config[u].pageName = page.pageName
                         /\ report_config[u].measureId = page.measureId )
                       => tasks[u].request = request

\* two submitted pages with the same name and measure, one with and one without
\* a comparative measure
C14_Witness ==
    \E t, u \in DOMAIN report_config :
        /\ Submitted(t) /\ Submitted(u)
        /\ report_config[t].pageName = report_config[u].pageName
        /\ report_config[t].measureId = Some(BR007)
        /\ report_config[u].measureId = Some(BR007)
        /\ report_config[t].comparativeMeasureId = Some(BR008)
        /\ report_config[u].comparativeMeasureId = None
        /\ HasFilter(tasks[t].request)

(***************************************************************************)
(* Failures and the order of the steps of main.py.                         *)
(***************************************************************************)
\* merge_presentations has been called
MergeStarted ==
    pc \in {"merge", "email", "done"} \/ failure \in {"merge", "email"}

\* C15 as stated: a run in which the token request, an export or the merge
\* failed has ended with that error, has saved no merged report and has sent
\* no notification; the merge starts only after every page of the list was
\* exported by a task that returned; the notifier is called only after the
\* merge has saved its output.
C15_Claim ==
    /\ failure \in {"token", "export", "merge"} =>
           /\ pc = "raised"
           /\ output = <<>>
           /\ sent = <<>>
    /\ MergeStarted => \A t \in DOMAIN report_config : tasks[t].st = "done"
    /\ (pc = "done" \/ failure = "email" \/ sent # <<>>) => output # <<>>

(***************************************************************************)
(* An unreadable presentation in the directory to merge.                   *)
(***************************************************************************)
\* a '.pptx' entry of the directory is no readable presentation
UnreadableEntries ==
    {name \in DOMAIN dir.files : Selected(name) /\ Unreadable(dir.files[name])}

\* the call of merge_presentations has ended, by return or by exception
MergeEnded == MergeReturned \/ failure = "merge"

\* C16: when a '.pptx' entry of the directory cannot be read, the call of
\* merge_presentations ends with the error and no output file exists,
\* wherever the entry stands in the sorted order and however many slides of
\* earlier files were copied before it.
C16_Abort ==
    (UnreadableEntries # {} /\ MergeEnded) =>
        /\ pc = "raised"
        /\ failure = "merge"
        /\ output = <<>>

\* the merge has raised on an unreadable entry that sorts last, after two
\* readable presentations whose slides were copied
C16_Witness ==
    /\ failure = "merge"
    /\ UnreadableEntries = {PageFileName(11)}
    /\ \A name \in {PageFileName(2), PageFileName(100)} :
          /\ name \in DOMAIN dir.files
          /\ Len(dir.files[name].slides) = MaxSlides

(***************************************************************************)
(* The run directory.                                                      *)
(***************************************************************************)
\* C17 as stated: the directory a run merges from holds only files written
\* by that run's own exports: when every page of the run was written and the
\* merge has returned, no slide of the merged presentation comes from a file
\* that this run did not write.
C17_Claim ==
    (MergeReturned /\ \A t \in DOMAIN report_config : tasks[t].wrote = 1) =>
        \A k \in DOMAIN MergedSlides : MergedSlides[k].src # 0

(***************************************************************************)
(* Termination of the export under fairness.                               *)
(***************************************************************************)
\* a status response that ends the poll loop of the task at position t
PollTerminal(t) == PollResponse(t) /\ tasks'[t].st # "poll"

\* the statements of main.py and of get_all_pages run when they can
MainStep ==
    \/ GetAccessToken
    \/ LoadReportConfig
    \/ MakeDir
    \/ StartExport
    \/ GatherReturn
    \/ GatherRaise
    \/ MergePresentations
    \/ SendEmail

\* every HTTP call returns, and every job that was submitted reports a
\* terminal status to some status request
Fairness ==
    /\ WF_vars(MainStep)
    /\ \A t \in Positions :
          /\ WF_vars(SubmitResponse(t))
          /\ WF_vars(PollTerminal(t))
          /\ WF_vars(DownloadResponse(t))
          /\ WF_vars(ReadBody(t))

SpecFair == Spec /\ Fairness

\* the steps by which a task leaves the poll loop: a Succeeded response, a
\* Failed response, an HTTP error, or the end of the whole run after a task of
\* its chunk failed
PollExit ==
    \A t \in Positions :
        (tasks[t].st = "poll" /\ tasks'[t].st # "poll") =>
            \/ tasks'[t].st = "download" /\ tasks'[t].last = "Succeeded"
            \/ /\ tasks'[t].st = "failed"
               /\ \/ tasks'[t].err = "PBIExportError" /\ tasks'[t].last = "Failed"
                  \/ tasks'[t].err = "HTTPError"
            \/ /\ tasks'[t].st = "cancelled"
               /\ GatherFailed(tasks, Current)
               /\ pc' = "raised"

C19_Claim ==
    ExportReturned => \A t \in DOMAIN report_config : Submitted(t)

====
